---- MODULE Spec2Model ----
(***************************************************************************)
(* A model of core/finance.py: the price resolver, the policy gate client  *)
(* (check_policy), the Jupiter swap flow (jupiter_swap) and the portfolio  *)
(* snapshot (compute_portfolio_snapshot).                                  *)
(*                                                                         *)
(* Money is counted in eighths of a dollar: every such amount is an exact  *)
(* binary floating point number, so the float arithmetic of the source is  *)
(* exact on it and round(x, 2) is round-half-to-even on the exact value.   *)
(***************************************************************************)
EXTENDS Integers, Sequences, FiniteSets, TLC

(* ------------------------------ bounds -------------------------------- *)
\* jupiter_swap invocations started in one behaviour
MaxSwaps == 2
\* a price source answers a price of at most MaxPrice eighths of a dollar
MaxPrice == 2
\* policy.yaml max_daily_value_usd (eighths of a dollar)
MaxDailyUsd == 3
\* policy.yaml max_daily_txs
MaxDailyTxs == 2
\* UTC dates are 0..MaxDay
MaxDay == 1
\* direct check_policy calls made in one behaviour
MaxCalls == 4
\* a balance is at most MaxAmount units of the asset
MaxAmount == 1
\* token accounts returned by getTokenAccountsByOwner
MaxTokens == 2
\* compute_portfolio_snapshot invocations started in one behaviour
MaxSnapshots == 2
\* the clock reads 0..MaxClock
MaxClock == 1
\* swap and snapshot invocations started in one behaviour of the whole system
MaxOps == 2
\* lines of the history file that get_portfolio_24h_change is tried on
MaxHistory == 4
MaxLimit == 2
MaxCooldown == 2
MaxItems == 3
MaxUpdates == 3

(* ------------------------- program constants -------------------------- *)
LAMPORTS_PER_SOL == 1000000000
\* get_portfolio_24h_change looks back timedelta(hours=24)
DAY_HOURS == 24
\* get_portfolio_24h_change reads the last 200 history entries
HISTORY_WINDOW == 200
\* get_portfolio_history's default limit
HISTORY_LIMIT == 168

Procs == {1, 2}
Days == 0..MaxDay
SOL_MINT == "SOL"
Mints == {SOL_MINT, "USDC"}

\* an optional number (float | None), or an exception leaving the callee
None == [tag |-> "none", val |-> 0]
Some(n) == [tag |-> "some", val |-> n]
Raise == [tag |-> "raise", val |-> 0]

\* Python truthiness of float | None
Truthy(x) == x.tag = "some" /\ x.val # 0

\* round(x, 2) of x eighths of a dollar, in cents: 12.5 x, ties to even
Round2(x) ==
    LET twice == 25 * x
        lo == twice \div 2
    IN  IF twice % 2 = 0 THEN lo
        ELSE IF lo % 2 = 0 THEN lo ELSE lo + 1

(* --------------------------- price resolver --------------------------- *)
\* What _http_get_json hands to a price source: None (unreachable, timeout,
\* HTTP error, not JSON), or the decoded JSON: empty ({} or []), a non-empty
\* list, a dict without the price field, a dict whose price field is not a
\* number, or a dict with the price field val.
HttpKinds == {"none", "empty", "list", "nokey", "bad"}

HttpResponses ==
    {[kind |-> k, val |-> 0] : k \in HttpKinds}
        \cup {[kind |-> "price", val |-> n] : n \in (-1)..MaxPrice}

\* _coingecko_price: data[coin_id]["usd"] under except (KeyError, TypeError, ValueError)
CoingeckoPrice(data) ==
    IF data.kind = "price" THEN Some(data.val) ELSE None

\* _dexscreener_price: data.get("pairs") is outside what the except clause
\* catches when data is a list (AttributeError)
DexscreenerPrice(data) ==
    CASE data.kind = "price" -> Some(data.val)
      [] data.kind = "list" -> Raise
      [] OTHER -> None

\* get_sol_price / get_eth_price: the primary source if its price is truthy,
\* else the fallback source
GetPrice(primary, fallback) ==
    LET price == CoingeckoPrice(primary)
    IN  IF Truthy(price) THEN price ELSE DexscreenerPrice(fallback)

\* (mutant) the two sources asked in the other order
ResolvePriceFallbackFirst(asset, primary, fallback) ==
    IF asset = "TOKEN" \/ Truthy(DexscreenerPrice(fallback))
    THEN DexscreenerPrice(fallback)
    ELSE CoingeckoPrice(primary)

\* get_sol_price, get_eth_price (primary source, then fallback) and
\* get_token_price (the fallback source alone)
Assets == {"SOL", "ETH", "TOKEN"}

ResolvePrice(asset, primary, fallback) ==
    IF asset = "TOKEN" THEN DexscreenerPrice(fallback) ELSE GetPrice(primary, fallback)

\* the sources a resolution calls, in the order of the calls
SourcesConsulted(asset, primary) ==
    IF asset = "TOKEN" THEN <<"dexscreener">>
    ELSE IF Truthy(CoingeckoPrice(primary)) THEN <<"coingecko">>
    ELSE <<"coingecko", "dexscreener">>

NoResolver ==
    [done |-> FALSE, asset |-> "SOL",
     primary |-> [kind |-> "none", val |-> 0],
     fallback |-> [kind |-> "none", val |-> 0],
     price |-> None, consulted |-> <<>>]

(* ------------------------- the policy authority ----------------------- *)
\* What the call of the authority script can come to: the script is missing,
\* the process cannot be started, it runs into the 10 s timeout, it exits
\* with a non-zero code, it exits with code 0.
AuthorityAnswers == {"missing", "spawn_error", "timeout", "exit_nonzero", "exit_zero"}

EmptyBucket == [count |-> 0, value_usd |-> 0]

\* (mutant) the commit flag is not forwarded
PolicyRequestAlwaysCommit(chain, value_usd, to, commit) ==
    [chain |-> chain, value_usd |-> value_usd, to |-> to, commit |-> TRUE]

\* the request the client writes to the authority's stdin (line 328)
PolicyRequest(chain, value_usd, to, commit) ==
    [chain |-> chain, value_usd |-> value_usd, to |-> to, commit |-> commit]

NoRequest == [chain |-> "", value_usd |-> 0, to |-> "", commit |-> FALSE]

\* The authority (wallet/scripts/policy_check.py): it exits with success only
\* for a request within the daily maxima of the day's bucket; it may refuse
\* any request (cooldown, mode and per-transaction rules are its own).
AuthorityAllows(led, d, req) ==
    /\ led[d].value_usd + req.value_usd <= MaxDailyUsd
    /\ led[d].count + 1 <= MaxDailyTxs

\* the ledger after the authority answered req: an allowed committing request
\* is recorded in the day's bucket, nothing else is
AuthorityLedger(led, d, req, answer) ==
    IF answer = "exit_zero" /\ req.commit
    THEN [led EXCEPT ![d] = [count |-> @.count + 1,
                             value_usd |-> @.value_usd + req.value_usd]]
    ELSE led

\* (mutant) a timeout passes
ReturnsAllowedFailOpen(answer) == answer \in {"exit_zero", "timeout"}

\* the first component of check_policy's result (lines 327, 337, 339)

ReturnsAllowed(answer) == answer = "exit_zero"

\* check_policy: [allowed, message] and the ledger it leaves
CheckPolicy(led, d, chain, value_usd, to, commit, answer) ==
    LET req == PolicyRequest(chain, value_usd, to, commit)
    IN  [allowed |-> ReturnsAllowed(answer),
         message |-> answer,
         req     |-> req,
         ledger  |-> IF answer \in {"missing", "spawn_error"}
                     THEN led
                     ELSE AuthorityLedger(led, d, req, answer)]

\* the answers the call can come to in ledger led on day d
PossibleAnswers(led, d, chain, value_usd, to, commit) ==
    {a \in AuthorityAnswers :
        a = "exit_zero" =>
            AuthorityAllows(led, d, PolicyRequest(chain, value_usd, to, commit))}

(* ------------------------ portfolio snapshot ------------------------- *)
\* what a balance fetcher returns (None, or an amount) and what the price
\* resolver returns to compute_portfolio_snapshot (None, or a price)
Balances == {None} \cup {Some(n) : n \in 0..MaxAmount}
ResolvedPrices == {None, Some(0), Some(1), Some(MaxPrice)}

\* a token account of get_solana_token_accounts (amount > 0), with what
\* get_token_price returns for its mint when the loop comes to it; a wallet
\* can hold several token accounts of one mint, and a wrapped-SOL account
TokenMints == {SOL_MINT, "USDC"}
TokenAccounts ==
    [mint : TokenMints, amount : 1..MaxAmount, price : ResolvedPrices]

RECURSIVE SeqsUpTo(_, _)
SeqsUpTo(S, n) ==
    IF n = 0 THEN {<<>>}
    ELSE LET shorter == SeqsUpTo(S, n - 1)
         IN  shorter \cup {Append(q, x) : q \in {r \in shorter : Len(r) = n - 1}, x \in S}

\* what compute_portfolio_snapshot reads (lines 509-513 and 535)
SnapshotInputs ==
    [sol_bal : Balances, sol_price : ResolvedPrices,
     base_bal : {None, Some(1)}, eth_price : {None, Some(3)},
     tokens : SeqsUpTo(TokenAccounts, MaxTokens)]

\* (mutant) a native asset without a price gets a row worth 0
NativeHoldingZeroRow(chain, symbol, mint, bal, price) ==
    IF bal.tag = "some"
    THEN <<[chain |-> chain, symbol |-> symbol, mint |-> mint,
            amount |-> bal.val,
            price_usd |-> IF price.tag = "some" THEN price.val ELSE 0,
            value_usd |-> IF price.tag = "some" THEN bal.val * price.val ELSE 0]>>
    ELSE <<>>

\* lines 518-532: the row of a native asset, if its balance and its price are
\* both not None
NativeHolding(chain, symbol, mint, bal, price) ==
    IF bal.tag = "some" /\ price.tag = "some"
    THEN <<[chain |-> chain, symbol |-> symbol, mint |-> mint,
            amount |-> bal.val, price_usd |-> price.val,
            value_usd |-> bal.val * price.val]>>
    ELSE <<>>

\* lines 534-542: the rows of the token accounts whose price is not None
RECURSIVE TokenHoldings(_)
TokenHoldings(tokens) ==
    IF tokens = <<>> THEN <<>>
    ELSE LET tok == Head(tokens)
             row == IF tok.price.tag = "some"
                    THEN <<[chain |-> "solana", symbol |-> tok.mint,
                            mint |-> tok.mint, amount |-> tok.amount,
                            price_usd |-> tok.price.val,
                            value_usd |-> tok.amount * tok.price.val]>>
                    ELSE <<>>
         IN  row \o TokenHoldings(Tail(tokens))

\* total_value as the three blocks add to it
RECURSIVE TotalValue(_)
TotalValue(holdings) ==
    IF holdings = <<>> THEN 0
    ELSE TotalValue(SubSeq(holdings, 1, Len(holdings) - 1))
            + holdings[Len(holdings)].value_usd

\* lines 515-553: the snapshot (total_value_usd in cents, the other amounts in
\* eighths of a dollar; the read-only policy view is left out)
ComputeSnapshot(in, ts) ==
    LET holdings ==
            NativeHolding("solana", "SOL", SOL_MINT, in.sol_bal, in.sol_price)
                \o NativeHolding("base", "ETH", "native", in.base_bal, in.eth_price)
                \o TokenHoldings(in.tokens)
    IN  [ts |-> ts,
         total_value_usd |-> Round2(TotalValue(holdings)),
         holdings |-> holdings,
         sol_balance |-> in.sol_bal, sol_price |-> in.sol_price,
         base_balance |-> in.base_bal, eth_price |-> in.eth_price]

NoSnapshot ==
    [ts |-> 0, total_value_usd |-> 0, holdings |-> <<>>,
     sol_balance |-> None, sol_price |-> None,
     base_balance |-> None, eth_price |-> None]

(* ------------------------------- state -------------------------------- *)
VARIABLES
    ledger,     \* POLICY_LEDGER (wallet/state/ledger.json): day_key -> bucket
    day,        \* the current UTC date, the day_key of "now"
    inv,        \* inv[p]: caller p's jupiter_swap invocation: locals, result, position
    events,     \* EVENTS_LOG (financial_events.jsonl): the event of each line, in file order
    decisions,  \* DECISIONS_LOG (decisions.jsonl): the type of each line, in file order
    started,    \* jupiter_swap invocations started so far
    gate,       \* the last direct check_policy call and what it returned
    pin,        \* what one compute_portfolio_snapshot call reads
    pout,       \* the snapshot it has built: [done, snapshot]
    portfolioFile,  \* PORTFOLIO_FILE (state/portfolio.json): what is on disk
    history,    \* PORTFOLIO_HISTORY (portfolio_history.jsonl), in file order
    snap,       \* snap[p]: caller p's compute_portfolio_snapshot invocation
    now,        \* the clock (_utcnow)
    reader,     \* what the last get_cached_portfolio call returned
    persisted,  \* the snapshots that have been written to PORTFOLIO_FILE in full
    snapsStarted,   \* compute_portfolio_snapshot invocations started so far
    snapsDone,  \* compute_portfolio_snapshot invocations that have returned
    lastSnap,   \* the caller of the invocation started last (0: none yet)
    change,     \* what the last get_portfolio_24h_change call returned
    historyView,    \* what the last get_portfolio_history call returned
    resolver,   \* one price resolution: the asset, what the two sources
                \* answer, the price returned and the sources consulted
    status,     \* what the last get_policy_status call returned
    outbox,     \* the lines of TELEGRAM_MESSAGES_OUT (their number)
    ready,      \* the swaps that returned tx_ready so far: their number and
                \* the sum of their value_usd
    jsonl,      \* one _read_jsonl call: the file, the limit, what it returned
    rpc,        \* one balance fetch: the method, the RPC response, the outcome
    valuation,  \* one valuation of a quote: the inputs and the value_usd
    offset,     \* poll: the local offset
    updates,    \* the updates the Telegram server holds: updates[i] has update_id i
    batch,      \* poll: the update_ids of the current response not yet iterated
    handling,   \* poll: the update_id whose iteration is under way (0: none)
    botPc,      \* poll: its position
    commandLog, \* COMMANDS_LOG: the update_id of each line, in file order
    taken,      \* taken[i]: the iterations of the for loop begun for update i
    handled,    \* handled[i]: how each handler call made for update i ended
    dropped     \* the updates that were left in a batch abandoned on an exception

snapVars == <<portfolioFile, history, snap, now, reader, persisted, snapsStarted,
              snapsDone, lastSnap, change, historyView>>
swapVars == <<ledger, day, inv, events, decisions, started, gate, outbox, ready>>
pureVars == <<jsonl, rpc, valuation>>
botVars == <<offset, updates, batch, handling, botPc, commandLog, taken, handled,
             dropped>>
vars == <<ledger, day, inv, events, decisions, started, gate, pin, pout,
          portfolioFile, history, snap, now, reader, persisted, snapsStarted,
          snapsDone, lastSnap, change, historyView, resolver, status, outbox,
          ready, jsonl, rpc, valuation, offset, updates, batch, handling, botPc,
          commandLog, taken, handled, dropped>>

(* ---------------------------- jupiter_swap ---------------------------- *)
\* What jupiter_get_quote returns: None (or an empty body), or a dict whose
\* inAmount is missing, unparseable by int(), or a number of lamports (none or
\* one whole SOL).
QuoteResponses ==
    {[kind |-> "none", tag |-> "missing", val |-> 0],
     [kind |-> "dict", tag |-> "missing", val |-> 0],
     [kind |-> "dict", tag |-> "bad", val |-> 0],
     [kind |-> "dict", tag |-> "int", val |-> 0],
     [kind |-> "dict", tag |-> "int", val |-> LAMPORTS_PER_SOL]}

\* to a swap the price sources answer nothing or a JSON object, and no
\* negative price
SwapHttpResponses == {r \in HttpResponses : r.kind # "list" /\ r.val >= 0}

\* What jupiter_get_swap_tx returns: None (no answer, or a dict without
\* swapTransaction) or the encoded transaction.
BuildResponses == {"none", "tx"}

\* what get_solana_address returns
Addresses == {"", "addr"}

NoQuote == [present |-> FALSE, estimated_value_usd |-> 0]
NoPolicy == [present |-> FALSE, allowed |-> FALSE]

\* result as line 710 makes it
NewResult(dry_run) ==
    [status |-> "error", dry_run |-> dry_run, error |-> "",
     quote |-> NoQuote, policy |-> NoPolicy, swap_transaction_b64 |-> ""]

\* An invocation: its position (pc), the local value_usd, the result dict, and
\* what it has done so far: the calls it made (nQuote, nCheck, nBuild, nCommit),
\* the requests of its two check_policy calls, the commits the authority
\* recorded for it, and the lines it appended to the two logs.
IdleInv ==
    [pc |-> "idle", value_usd |-> 0, result |-> NewResult(TRUE),
     nQuote |-> 0, nCheck |-> 0, nBuild |-> 0, nCommit |-> 0,
     checkReq |-> NoRequest, commitReq |-> NoRequest, notified |-> "none",
     recorded |-> 0, nEvents |-> 0, nDecisions |-> 0,
     logged |-> <<>>, decided |-> <<>>]

\* no swap has returned tx_ready
NoReady == [txs |-> 0, value_usd |-> 0]

\* lines 717-725: the USD value of the quoted input amount, or the exception
\* that leaves the try block (only ValueError and TypeError are caught)
SwapValue(input_mint, quote, cg, dx) ==
    IF quote.tag = "bad" THEN Some(0)
    ELSE LET in_amount == quote.val
             price == GetPrice(cg, dx)
             sol_price == IF Truthy(price) THEN price.val ELSE 0
         IN  IF price.tag = "raise" THEN Raise
             ELSE IF input_mint = SOL_MINT
                  THEN Some((in_amount \div LAMPORTS_PER_SOL) * sol_price)
                  ELSE Some(0)

\* lines 712-725: how the quote and the value step end: with the error return,
\* with an exception, or with a value_usd
QuoteStep(input_mint, quote, cg, dx) ==
    IF quote.kind = "none" THEN [end |-> "error", value_usd |-> 0]
    ELSE LET v == SwapValue(input_mint, quote, cg, dx)
         IN  IF v.tag = "raise" THEN [end |-> "raise", value_usd |-> 0]
             ELSE [end |-> "value", value_usd |-> v.val]

\* every end of the two steps, over the inputs and the answers of the quote
\* source and of the two price sources
QuoteStepEnds ==
    {QuoteStep(input_mint, quote, cg, dx) :
        input_mint \in Mints, quote \in QuoteResponses,
        cg \in SwapHttpResponses, dx \in SwapHttpResponses}

\* lines 710-734: the quote and the value step
SwapQuote(p) ==
    /\ inv[p].pc \in {"idle", "done", "raised"}
    /\ started < MaxSwaps
    /\ \E dry_run \in BOOLEAN, q \in QuoteStepEnds :
          LET fresh == [IdleInv EXCEPT !.result = NewResult(dry_run),
                                       !.nQuote = 1]
          IN  inv' = [inv EXCEPT ![p] =
                  CASE q.end = "error" ->
                         [fresh EXCEPT !.pc = "done",
                                       !.result.error = "Failed to get Jupiter quote"]
                    [] q.end = "raise" ->
                         [fresh EXCEPT !.pc = "raised"]
                    [] OTHER ->
                         [fresh EXCEPT
                            !.pc = "check",
                            !.value_usd = q.value_usd,
                            !.result.quote =
                                [present |-> TRUE,
                                 estimated_value_usd |-> Round2(q.value_usd)]]]
    /\ started' = started + 1
    /\ UNCHANGED <<ledger, day, events, decisions, gate, outbox, ready, pin, pureVars, botVars, pout, resolver, status, snapVars>>

\* (mutant) a refused commit ends the invocation as a denial
AfterCommitInspected(allowed) ==
    IF allowed THEN "tx_ready" ELSE "policy_denied"

\* (mutant) a refused commit ends the invocation as an error
AfterCommitErrorOnRefusal(allowed) ==
    IF allowed THEN "tx_ready" ELSE "error"

\* lines 759-762: the status after the committing call, whose result is dropped
AfterCommit(allowed) == "tx_ready"

\* the lines a call appended to a log
Appended(before, after) == SubSeq(after, Len(before) + 1, Len(after))

\* the arguments of the two check_policy calls (lines 736 and 759)
SwapCheckArgs(i) ==
    [chain |-> "solana", value_usd |-> i.value_usd, to |-> "jupiter_swap"]

\* (mutant) the commit is made for the rounded estimate of the result
SwapCommitArgsEstimate(i) ==
    [chain |-> "solana", value_usd |-> i.result.quote.estimated_value_usd,
     to |-> "jupiter_swap"]

SwapCommitArgs(i) ==
    [chain |-> "solana", value_usd |-> i.value_usd, to |-> "jupiter_swap"]

\* (mutant) a denial does not stop the flow
AfterCheckIgnoreDenial(allowed, dry_run) ==
    IF dry_run THEN "quote_ready" ELSE "build"

\* (mutant) a preview goes on to the build step
AfterCheckNoDryRun(allowed, dry_run) ==
    IF ~allowed THEN "policy_denied" ELSE "build"

\* (mutant) a denied check is tried again
AfterCheckRetry(allowed, dry_run) ==
    IF ~allowed THEN "check"
    ELSE IF dry_run THEN "quote_ready"
    ELSE "build"

\* (mutant) a denied invocation that is no preview goes on
AfterCheckDenialOnlyStopsPreview(allowed, dry_run) ==
    IF dry_run THEN (IF allowed THEN "quote_ready" ELSE "policy_denied")
    ELSE "build"

\* lines 738-745: where the flow goes after the non-committing check
AfterCheck(allowed, dry_run) ==
    IF ~allowed THEN "policy_denied"
    ELSE IF dry_run THEN "quote_ready"
    ELSE "build"

(* ---------------------- log_financial_event --------------------------- *)
\* What a send_telegram call comes to: token or chat id not set, an HTTP
\* answer that is not ok, an exception of the request, the message sent but
\* the outbox line not written, the message sent and the line written.
TelegramOutcomes == {"not_configured", "http_error", "exception", "outbox_error", "sent"}

\* send_telegram, lines 412-429: whether it returns True, and the outbox;
\* every exception is caught inside
SendTelegram(out, outcome) ==
    [ok |-> outcome = "sent",
     outbox |-> IF outcome = "sent" THEN out + 1 ELSE out]

\* (mutant) the notification is sent first and its failure ends the call
LogFinancialEventNotifyFirst(log, out, event_type, appendOk, outcome) ==
    LET t == SendTelegram(out, outcome)
    IN  IF t.ok /\ appendOk
        THEN [events |-> Append(log, event_type), outbox |-> t.outbox,
              raised |-> FALSE, notified |-> outcome]
        ELSE [events |-> log, outbox |-> t.outbox,
              raised |-> TRUE, notified |-> outcome]

\* (mutant) a failure of the append is swallowed
LogFinancialEventSwallowsFailure(log, out, event_type, appendOk, outcome) ==
    IF ~appendOk
    THEN [events |-> log, outbox |-> out, raised |-> FALSE, notified |-> "none"]
    ELSE [events |-> Append(log, event_type),
          outbox |-> SendTelegram(out, outcome).outbox,
          raised |-> FALSE, notified |-> outcome]

\* log_financial_event, lines 450-459: the event is appended (a failure of
\* the append leaves the call as an exception), then send_telegram is called
\* under try/except; notified is the outcome of that call ("none": not made)
LogFinancialEvent(log, out, event_type, appendOk, outcome) ==
    IF ~appendOk
    THEN [events |-> log, outbox |-> out, raised |-> TRUE, notified |-> "none"]
    ELSE [events |-> Append(log, event_type),
          outbox |-> SendTelegram(out, outcome).outbox,
          raised |-> FALSE, notified |-> outcome]

\* lines 736-745: the non-committing check, the denial and the dry-run exit
SwapCheck(p) ==
    /\ inv[p].pc = "check"
    /\ LET i == inv[p]
           a == SwapCheckArgs(i)
       IN  \E answer \in PossibleAnswers(ledger, day, a.chain, a.value_usd, a.to, FALSE),
              appendOk \in BOOLEAN, telegram \in TelegramOutcomes :
              LET r == CheckPolicy(ledger, day, a.chain, a.value_usd, a.to, FALSE, answer)
                  e == LogFinancialEvent(events, outbox, "swap_denied", appendOk, telegram)
                  next == AfterCheck(r.allowed, i.result.dry_run)
                  i1 == [i EXCEPT !.nCheck = @ + 1,
                                  !.checkReq = r.req,
                                  !.recorded = @ + (r.ledger[day].count - ledger[day].count),
                                  !.result.policy = [present |-> TRUE,
                                                     allowed |-> r.allowed]]
              IN  /\ ledger' = r.ledger
                  /\ CASE next = "policy_denied" ->
                            \* log_financial_event("swap_denied", ...)
                            /\ events' = e.events
                            /\ outbox' = e.outbox
                            /\ inv' = [inv EXCEPT ![p] =
                                   [i1 EXCEPT !.pc = IF e.raised THEN "raised" ELSE "done",
                                              !.nEvents = @ + Len(e.events) - Len(events),
                                              !.logged = @ \o Appended(events, e.events),
                                              !.notified = e.notified,
                                              !.result.status = "policy_denied"]]
                       [] next = "quote_ready" ->
                            /\ events' = events
                            /\ outbox' = outbox
                            /\ inv' = [inv EXCEPT ![p] =
                                   [i1 EXCEPT !.pc = "done",
                                              !.result.status = "quote_ready"]]
                       [] OTHER ->
                            /\ events' = events
                            /\ outbox' = outbox
                            /\ inv' = [inv EXCEPT ![p] = [i1 EXCEPT !.pc = next]]
    /\ UNCHANGED <<day, decisions, started, gate, ready, pin, pureVars, botVars, pout, resolver, status, snapVars>>

\* lines 747-757: the wallet address and the build step
SwapBuild(p) ==
    /\ inv[p].pc = "build"
    /\ \E address \in Addresses, data \in BuildResponses :
          LET i == inv[p]
          IN  inv' = [inv EXCEPT ![p] =
                  IF address = ""
                  THEN [i EXCEPT !.pc = "done",
                                 !.result.error = "No Solana wallet address",
                                 !.result.status = "error"]
                  ELSE IF data = "tx"
                  THEN [i EXCEPT !.pc = "commit", !.nBuild = @ + 1]
                  ELSE [i EXCEPT !.pc = "done", !.nBuild = @ + 1,
                                 !.result.error = "Failed to build swap transaction",
                                 !.result.status = "error"]]
    /\ UNCHANGED <<ledger, day, events, decisions, started, gate, outbox, ready, pin, pureVars, botVars, pout, resolver, status, snapVars>>

\* lines 759-773: the committing call, whose result is dropped, the result,
\* the swap event and the decision-log entry
SwapCommit(p) ==
    /\ inv[p].pc = "commit"
    /\ LET i == inv[p]
           a == SwapCommitArgs(i)
       IN  \E answer \in PossibleAnswers(ledger, day, a.chain, a.value_usd, a.to, TRUE),
              eventOk \in BOOLEAN, decisionOk \in BOOLEAN,
              telegram \in TelegramOutcomes :
              LET r == CheckPolicy(ledger, day, a.chain, a.value_usd, a.to, TRUE, answer)
                  e == LogFinancialEvent(events, outbox, "swap", eventOk, telegram)
                  st == AfterCommit(r.allowed)
                  returns == ~e.raised /\ decisionOk
                  i1 == [i EXCEPT !.nCommit = @ + 1,
                                  !.commitReq = r.req,
                                  !.recorded = @ + (r.ledger[day].count - ledger[day].count),
                                  !.result.swap_transaction_b64 =
                                      IF st = "tx_ready" THEN "tx" ELSE @,
                                  !.result.status = st]
              IN  /\ ledger' = r.ledger
                  /\ events' = e.events
                  /\ outbox' = e.outbox
                  /\ decisions' = IF ~e.raised /\ decisionOk
                                  THEN Append(decisions, "swap_executed")
                                  ELSE decisions
                  /\ inv' = [inv EXCEPT ![p] =
                         [i1 EXCEPT !.pc = IF ~e.raised /\ decisionOk
                                           THEN "done" ELSE "raised",
                                    !.nEvents = @ + Len(e.events) - Len(events),
                                    !.logged = @ \o Appended(events, e.events),
                                    !.notified = e.notified,
                                    !.nDecisions = IF returns THEN @ + 1 ELSE @,
                                    !.decided = IF returns
                                                THEN Append(@, "swap_executed")
                                                ELSE @]]
                  /\ ready' = IF returns /\ st = "tx_ready"
                              THEN [txs |-> ready.txs + 1,
                                    value_usd |-> ready.value_usd + i.value_usd]
                              ELSE ready
    /\ UNCHANGED <<day, started, gate, pin, pureVars, botVars, pout, resolver, status, snapVars>>

(* -------------------------- get_policy_status ------------------------- *)
\* (mutant) the bucket of the last day on record is taken for today's
LedgerGetLastBucket(led, day_key) ==
    IF DOMAIN led = {} THEN EmptyBucket
    ELSE led[CHOOSE d \in DOMAIN led : \A e \in DOMAIN led : e <= d]

\* line 384: ledger.get(day_key, {"count": 0, "value_usd": 0.0})
LedgerGet(led, day_key) ==
    IF day_key \in DOMAIN led THEN led[day_key] ELSE EmptyBucket

Max(a, b) == IF a >= b THEN a ELSE b

NoStatus ==
    [done |-> FALSE, max_daily_usd |-> 0, daily_spent_usd |-> 0,
     daily_tx_count |-> 0, daily_remaining_usd |-> 0,
     cooldown_seconds |-> 0, last_ts |-> 0, clock |-> 0, cooldown_remaining |-> 0]

\* (mutant) the remaining cooldown is not floored at 0
CooldownRemainingNoFloor(cooldown, last_ts, now_ts) ==
    IF cooldown > 0 /\ last_ts > 0
    THEN cooldown - (now_ts - last_ts)
    ELSE 0

\* lines 392-396: the remaining cooldown, in seconds, from the policy's
\* cooldown_seconds, the ts of the last-action file (0: no file, no ts) and
\* the clock
CooldownRemaining(cooldown, last_ts, now_ts) ==
    IF cooldown > 0 /\ last_ts > 0
    THEN Max(0, cooldown - (now_ts - last_ts))
    ELSE 0

\* get_policy_status, lines 381-408: the day's figures of the status, from the
\* ledger file, the UTC date of the clock and the policy's daily maximum
PolicyStatus(led, day_key, max_daily) ==
    LET day_entry == LedgerGet(led, day_key)
    IN  [done |-> TRUE,
         max_daily_usd |-> max_daily,
         daily_spent_usd |-> day_entry.value_usd,
         daily_tx_count |-> day_entry.count,
         daily_remaining_usd |-> Max(0, max_daily - day_entry.value_usd)]

GetPolicyStatus ==
    /\ status' = PolicyStatus(ledger, day, status.max_daily_usd) @@
                  [cooldown_seconds |-> status.cooldown_seconds,
                   last_ts |-> status.last_ts,
                   clock |-> status.clock,
                   cooldown_remaining |->
                       CooldownRemaining(status.cooldown_seconds, status.last_ts,
                                         status.clock)]
    /\ UNCHANGED <<swapVars, pin, pureVars, botVars, pout, resolver, snapVars>>

\* a price resolution, from what the two sources answer
GetAssetPrice ==
    /\ ~resolver.done
    /\ resolver' = [resolver EXCEPT
            !.done = TRUE,
            !.price = ResolvePrice(resolver.asset, resolver.primary, resolver.fallback),
            !.consulted = SourcesConsulted(resolver.asset, resolver.primary)]
    /\ UNCHANGED <<swapVars, pin, pureVars, botVars, pout, status, snapVars>>

(* ------------------------ direct check_policy ------------------------- *)
\* The last call: the caller's arguments, the request forwarded, the answer,
\* what was returned, the day's bucket before and after; and run, the number
\* of calls with commit = false made in a row for these same arguments (the
\* last included), with the bucket before the first of them.
NoGate ==
    [calls |-> 0, chain |-> "", value_usd |-> 0, to |-> "", commit |-> FALSE,
     req |-> NoRequest, answer |-> "", allowed |-> FALSE,
     before |-> EmptyBucket, after |-> EmptyBucket,
     run |-> 0, runStart |-> EmptyBucket]

Chains == {"solana", "base"}
Destinations == {"", "jupiter_swap"}

\* a caller calls check_policy(chain, value_usd, to, commit)
GateCall ==
    /\ gate.calls < MaxCalls
    /\ \E chain \in Chains, value_usd \in 0..MaxPrice, to \in Destinations,
          commit \in BOOLEAN :
          \E answer \in PossibleAnswers(ledger, day, chain, value_usd, to, commit) :
              LET r == CheckPolicy(ledger, day, chain, value_usd, to, commit, answer)
                  same == /\ gate.run > 0
                          /\ gate.chain = chain
                          /\ gate.value_usd = value_usd
                          /\ gate.to = to
              IN  /\ ledger' = r.ledger
                  /\ gate' = [calls |-> gate.calls + 1,
                              chain |-> chain, value_usd |-> value_usd,
                              to |-> to, commit |-> commit,
                              req |-> r.req, answer |-> answer,
                              allowed |-> r.allowed,
                              before |-> ledger[day], after |-> r.ledger[day],
                              run |-> IF commit THEN 0
                                      ELSE IF same THEN gate.run + 1 ELSE 1,
                              runStart |-> IF ~commit /\ same
                                           THEN gate.runStart ELSE ledger[day]]
    /\ UNCHANGED <<day, inv, events, decisions, started, outbox, ready, pin, pureVars, botVars, pout, resolver, status, snapVars>>

\* midnight UTC: the day_key of "now" changes
GateTick ==
    /\ day < MaxDay
    /\ day' = day + 1
    /\ gate' = [gate EXCEPT !.run = 0]
    /\ UNCHANGED <<ledger, inv, events, decisions, started, outbox, ready, pin, pureVars, botVars, pout, resolver, status, snapVars>>

InitAuth ==
    /\ day = 0
    /\ ledger = [d \in Days |-> EmptyBucket]

InitSwap ==
    /\ inv = [p \in Procs |-> IdleInv]
    /\ events = <<>>
    /\ decisions = <<>>
    /\ started = 0
    /\ outbox = 0
    /\ ready = NoReady

(* ---------------- compute_portfolio_snapshot and its readers ----------- *)
\* What is on disk at PORTFOLIO_FILE: no file, an empty file (opened with "w",
\* nothing written yet), the first part of a snapshot's JSON text, the whole
\* text, or the text of one writer followed by the rest of another's.
AbsentFile == [kind |-> "absent", snapshot |-> NoSnapshot]
EmptyFile == [kind |-> "empty", snapshot |-> NoSnapshot]
MixedFile == [kind |-> "mixed", snapshot |-> NoSnapshot]
PartialFile(snapshot) == [kind |-> "partial", snapshot |-> snapshot]
CompleteFile(snapshot) == [kind |-> "complete", snapshot |-> snapshot]

\* _read_json(path, default): the decoded file, or default when there is no
\* file or its text is not JSON
EmptyDict == [kind |-> "default", snapshot |-> NoSnapshot]
\* no get_cached_portfolio call yet; hadSnapshot records whether a snapshot
\* had been written in full before the call
NotRead == [returned |-> [kind |-> "unread", snapshot |-> NoSnapshot],
            hadSnapshot |-> FALSE]

ReadJson(file) ==
    IF file.kind = "complete"
    THEN [kind |-> "snapshot", snapshot |-> file.snapshot]
    ELSE EmptyDict

\* what the two callers of this model read: nothing resolved, or one SOL at
\* 1/8 $ with a token account worth 2/8 $
ScenarioInputs ==
    {[sol_bal |-> None, sol_price |-> None, base_bal |-> None,
      eth_price |-> None, tokens |-> <<>>],
     [sol_bal |-> Some(1), sol_price |-> Some(1), base_bal |-> None,
      eth_price |-> None,
      tokens |-> <<[mint |-> "USDC", amount |-> 1, price |-> Some(2)]>>]}

IdleSnap == [pc |-> "idle", snapshot |-> NoSnapshot]

\* the file opened with "w" instead of "a"
AppendJsonlTruncating(lines, entry) == <<entry>>

\* _append_jsonl, lines 89-91: the file with one more line at its end
AppendJsonl(lines, entry) == Append(lines, entry)

\* the entry without the number of holdings
HistoryEntryNoCount(snapshot) ==
    [json |-> TRUE, utf8 |-> TRUE,
     ts |-> Some(snapshot.ts),
     total_value_usd |-> snapshot.total_value_usd,
     sol_balance |-> snapshot.sol_balance, sol_price |-> snapshot.sol_price,
     base_balance |-> snapshot.base_balance, eth_price |-> snapshot.eth_price,
     holdings_count |-> 0]

\* lines 555-563: the history entry of a snapshot, as the line of text that
\* _append_jsonl writes: json says that the line is JSON, utf8 that its bytes
\* are UTF-8 text, ts is Some(t) for a text that _parse_ts reads as the time t
HistoryEntry(snapshot) ==
    [json |-> TRUE, utf8 |-> TRUE,
     ts |-> Some(snapshot.ts),
     total_value_usd |-> snapshot.total_value_usd,
     sol_balance |-> snapshot.sol_balance, sol_price |-> snapshot.sol_price,
     base_balance |-> snapshot.base_balance, eth_price |-> snapshot.eth_price,
     holdings_count |-> Len(snapshot.holdings)]

\* lines 509-553: the balances and prices are read, the snapshot is built and
\* stamped with the time
SnapCompute(p) ==
    /\ snap[p].pc \in {"idle", "done", "raised"}
    /\ snapsStarted < MaxSnapshots
    /\ \E in \in ScenarioInputs :
          snap' = [snap EXCEPT ![p] =
                      [pc |-> "open", snapshot |-> ComputeSnapshot(in, now)]]
    /\ snapsStarted' = snapsStarted + 1
    /\ lastSnap' = p
    /\ UNCHANGED <<swapVars, pin, pureVars, botVars, pout, resolver, status, change, historyView, portfolioFile, history, now, reader, persisted,
                   snapsDone>>

\* line 125, write_text opening the file with mode "w": the file is cut to
\* length 0, or the open fails and the exception leaves the invocation
SnapOpen(p) ==
    /\ snap[p].pc = "open"
    /\ \E ok \in BOOLEAN :
          IF ok
          THEN /\ portfolioFile' = EmptyFile
               /\ snap' = [snap EXCEPT ![p].pc = "write"]
          ELSE /\ portfolioFile' = portfolioFile
               /\ snap' = [snap EXCEPT ![p].pc = "raised"]
    /\ UNCHANGED <<swapVars, pin, pureVars, botVars, pout, resolver, status, change, historyView, history, now, reader, persisted, snapsStarted,
                   snapsDone, lastSnap>>

\* what a write of the text of snapshot, from offset 0, leaves of file: the
\* whole text, or (full = FALSE) only a first part of it; over a text that
\* another writer has put there since the file was cut, the result may be the
\* new text followed by the rest of the longer old one
WriteOver(file, snapshot, full) ==
    IF full
    THEN IF file.kind = "empty"
         THEN {CompleteFile(snapshot)}
         ELSE {CompleteFile(snapshot), MixedFile}
    ELSE IF file.kind = "empty"
         THEN {EmptyFile, PartialFile(snapshot)}
         ELSE {file, MixedFile}

\* line 125, write_text writing and closing: the text gets to the file, or
\* the write fails part-way (disk full, I/O error) and the exception leaves
\* the invocation
SnapWrite(p) ==
    /\ snap[p].pc = "write"
    /\ \E full \in BOOLEAN :
          \E file \in WriteOver(portfolioFile, snap[p].snapshot, full) :
              /\ portfolioFile' = file
              /\ persisted' = IF file.kind = "complete"
                              THEN persisted \cup {file.snapshot} ELSE persisted
              /\ snap' = [snap EXCEPT ![p].pc = IF full THEN "append" ELSE "raised"]
    /\ UNCHANGED <<swapVars, pin, pureVars, botVars, pout, resolver, status, change, historyView, history, now, reader, snapsStarted,
                   snapsDone, lastSnap>>

\* lines 555-564: the history entry is appended and the snapshot returned, or
\* the append fails
SnapAppend(p) ==
    /\ snap[p].pc = "append"
    /\ \E ok \in BOOLEAN :
          IF ok
          THEN /\ history' = AppendJsonl(history, HistoryEntry(snap[p].snapshot))
               /\ snap' = [snap EXCEPT ![p].pc = "done"]
               /\ snapsDone' = snapsDone + 1
          ELSE /\ history' = history
               /\ snap' = [snap EXCEPT ![p].pc = "raised"]
               /\ snapsDone' = snapsDone
    /\ UNCHANGED <<swapVars, pin, pureVars, botVars, pout, resolver, status, change, historyView, portfolioFile, now, reader, persisted, snapsStarted,
                   lastSnap>>

\* get_cached_portfolio (lines 567-569), called by the dashboard or the bot at
\* any time
GetCachedPortfolio ==
    /\ reader' = [returned |-> ReadJson(portfolioFile),
                  hadSnapshot |-> persisted # {}]
    /\ UNCHANGED <<swapVars, pin, pureVars, botVars, pout, resolver, status, change, historyView, portfolioFile, history, snap, now, persisted,
                   snapsStarted, snapsDone, lastSnap>>

(* ------------- get_portfolio_history, get_portfolio_24h_change ---------- *)
\* _read_jsonl(path, limit), lines 94-111: the lines that are JSON, in file
\* order, the last limit of them when limit > 0. A line that json.loads
\* rejects is skipped (lines 103-106); bytes that are not UTF-8 raise while the
\* file is iterated (line 100), outside the inner try, and the outer except
\* returns the empty list (lines 107-108).
ReadJsonl(lines, limit) ==
    LET entries == SelectSeq(lines, LAMBDA l : l.json)
    IN  IF \E k \in 1..Len(lines) : ~lines[k].utf8 THEN <<>>
        ELSE IF limit > 0 /\ Len(entries) > limit
        THEN SubSeq(entries, Len(entries) - limit + 1, Len(entries))
        ELSE entries

Abs(x) == IF x < 0 THEN -x ELSE x

\* an hour, in the ticks that the distances are counted in: more ticks than
\* entries are read
HourTicks == HISTORY_WINDOW + 1

\* abs(_parse_ts(ts) - target) for the k-th entry read, with target =
\* now_ts - 24h. _parse_ts (lines 607-617) answers a text that is no
\* timestamp with the clock, which is read after now_ts was and later for
\* every entry: 24 hours and k ticks from target
DeltaToTarget(ts, k, now_ts) ==
    IF ts.tag = "some"
    THEN HourTicks * Abs(ts.val - (now_ts - DAY_HOURS))
    ELSE HourTicks * DAY_HOURS + k

\* lines 585-591: the loop over the history in file order, keeping the first
\* entry of the least distance; answers the position of best
RECURSIVE NearestEntry(_, _, _, _)
NearestEntry(entries, k, best, now_ts) ==
    IF k > Len(entries)
    THEN best
    ELSE NearestEntry(entries, k + 1,
            IF DeltaToTarget(entries[k].ts, k, now_ts)
                  < DeltaToTarget(entries[best].ts, best, now_ts)
            THEN k ELSE best,
            now_ts)

\* the quotient n / d (d > 0) rounded to the nearest integer, a tie to the
\* even one, as round() does
RoundDiv(n, d) ==
    LET q == n \div d
        r == n - q * d
    IN  IF 2 * r < d THEN q
        ELSE IF 2 * r > d THEN q + 1
        ELSE IF q % 2 = 0 THEN q ELSE q + 1

\* the guard written as value_24h_ago != 0
ChangePctGuardsZeroOnly(chg, value_24h_ago) ==
    IF value_24h_ago > 0 THEN RoundDiv(chg * 10000, value_24h_ago)
    ELSE IF value_24h_ago < 0 THEN RoundDiv((-chg) * 10000, -value_24h_ago)
    ELSE 0

\* line 596: (change / value_24h_ago * 100) if value_24h_ago > 0 else 0, then
\* round(pct, 2) of line 600, in hundredths of a percent
ChangePct(chg, value_24h_ago) ==
    IF value_24h_ago > 0 THEN RoundDiv(chg * 10000, value_24h_ago) ELSE 0

NoChange == [done |-> FALSE, change_usd |-> 0, change_pct |-> 0,
             value_24h_ago |-> 0, current |-> 0, matched |-> 0]

\* get_portfolio_24h_change, lines 577-604, on the lines of the history file.
\* Amounts are in cents and change_pct in hundredths of a percent; matched is
\* the position of best among the entries read (0: none).
Change24h(lines, now_ts) ==
    LET entries == ReadJsonl(lines, HISTORY_WINDOW)
    IN  IF entries = <<>>
        THEN [NoChange EXCEPT !.done = TRUE]
        ELSE LET best == NearestEntry(entries, 1, 1, now_ts)
                 current == entries[Len(entries)].total_value_usd
                 value_24h_ago == entries[best].total_value_usd
                 chg == current - value_24h_ago
             IN  [done |-> TRUE,
                  change_usd |-> chg,
                  change_pct |-> ChangePct(chg, value_24h_ago),
                  value_24h_ago |-> value_24h_ago,
                  current |-> current,
                  matched |-> best]

GetPortfolio24hChange ==
    /\ change' = Change24h(history, now)
    /\ UNCHANGED <<swapVars, pin, pureVars, botVars, pout, resolver, status, portfolioFile, history, snap, now, reader,
                   persisted, snapsStarted, snapsDone, lastSnap, historyView>>

\* get_portfolio_history(), lines 572-574, with the default limit
GetPortfolioHistory ==
    /\ historyView' = ReadJsonl(history, HISTORY_LIMIT)
    /\ UNCHANGED <<swapVars, pin, pureVars, botVars, pout, resolver, status, portfolioFile, history, snap, now, reader,
                   persisted, snapsStarted, snapsDone, lastSnap, change>>

\* time passes
ClockTick ==
    /\ now < MaxClock
    /\ now' = now + 1
    /\ UNCHANGED <<swapVars, pin, pureVars, botVars, pout, resolver, status, change, historyView, portfolioFile, history, snap, reader, persisted,
                   snapsStarted, snapsDone, lastSnap>>

(* ----------------------------- _read_jsonl ------------------------------ *)
NoJsonl == [lines |-> <<>>, limit |-> 0, done |-> FALSE, entries |-> <<>>]

\* one _read_jsonl(path, limit) call
ReadJsonlFile ==
    /\ ~jsonl.done
    /\ jsonl' = [jsonl EXCEPT !.done = TRUE,
                              !.entries = ReadJsonl(jsonl.lines, jsonl.limit)]
    /\ UNCHANGED <<swapVars, pin, pout, resolver, status, snapVars, rpc, valuation, botVars>>

(* --------------------------- balance fetcher --------------------------- *)
\* What _http_post_json returns to a balance fetcher: None (no answer, HTTP
\* error, no JSON), a body without "result", a result of the wrong type (no
\* dict for getBalance, no string for eth_getBalance), a result without
\* "value", a value or a hex text that is no number, or the balance in the
\* smallest unit.
BalanceResponses ==
    {[kind |-> k, val |-> 0] :
        k \in {"none", "no_result", "wrong_type", "no_value", "bad_number"}}
        \cup {[kind |-> "number", val |-> n * LAMPORTS_PER_SOL] : n \in 0..MaxAmount}

\* get_solana_balance, lines 252-269, and get_base_balance, lines 303-320 (a
\* balance in wei is modelled in units of 10^9 too): every KeyError, TypeError
\* and (for the hex text) ValueError is caught
GetNativeBalance(address, data) ==
    IF address = "" THEN None
    ELSE IF data.kind = "number" THEN Some(data.val \div LAMPORTS_PER_SOL)
    ELSE None

\* An item of result.value of getTokenAccountsByOwner: a well-formed account
\* with its uiAmount (a number; null counts as 0), an item with a field
\* missing (KeyError), an item or a field of the wrong type (TypeError), and an
\* item whose uiAmount is a text that float() rejects (ValueError).
TokenItems ==
    {[kind |-> "account", mint |-> m, amount |-> a] :
        m \in TokenMints, a \in (-1)..MaxAmount}
        \cup {[kind |-> k, mint |-> "", amount |-> 0] :
                 k \in {"missing_field", "wrong_type", "bad_number"}}

\* what getTokenAccountsByOwner answers: nothing, a body whose result.value
\* cannot be iterated, or a list of items
TokenResponses ==
    {[kind |-> "none", items |-> <<>>], [kind |-> "no_list", items |-> <<>>]}
        \cup {[kind |-> "list", items |-> q] : q \in SeqsUpTo(TokenItems, MaxItems)}

\* the for loop of lines 291-297 from item k on, with the accounts collected so
\* far: a KeyError or TypeError ends the loop and the accounts collected are
\* returned (lines 298-300); a ValueError is not caught and leaves the call
RECURSIVE CollectAccounts(_, _, _)
CollectAccounts(items, k, accounts) ==
    IF k > Len(items) THEN [raised |-> FALSE, accounts |-> accounts]
    ELSE LET item == items[k]
         IN  CASE item.kind = "bad_number" -> [raised |-> TRUE, accounts |-> <<>>]
               [] item.kind \in {"missing_field", "wrong_type"} ->
                      [raised |-> FALSE, accounts |-> accounts]
               [] OTHER ->
                      CollectAccounts(items, k + 1,
                          IF item.amount > 0
                          THEN Append(accounts, [mint |-> item.mint, amount |-> item.amount])
                          ELSE accounts)

\* get_solana_token_accounts, lines 272-300
GetSolanaTokenAccounts(address, data) ==
    IF address = "" \/ data.kind = "none" THEN [raised |-> FALSE, accounts |-> <<>>]
    ELSE IF data.kind = "no_list" THEN [raised |-> FALSE, accounts |-> <<>>]
    ELSE CollectAccounts(data.items, 1, <<>>)

NoRpc ==
    [method |-> "", address |-> "", balance |-> [kind |-> "none", val |-> 0],
     tokens |-> [kind |-> "none", items |-> <<>>], done |-> FALSE,
     amount |-> None, raised |-> FALSE, accounts |-> <<>>]

\* one call of a balance fetcher
FetchBalance ==
    /\ ~rpc.done
    /\ rpc' = IF rpc.method = "getTokenAccountsByOwner"
              THEN LET r == GetSolanaTokenAccounts(rpc.address, rpc.tokens)
                   IN  [rpc EXCEPT !.done = TRUE, !.raised = r.raised,
                                   !.accounts = r.accounts]
              ELSE [rpc EXCEPT !.done = TRUE,
                               !.amount = GetNativeBalance(rpc.address, rpc.balance)]
    /\ UNCHANGED <<swapVars, pin, pout, resolver, status, snapVars, jsonl, valuation, botVars>>

(* ------------------------ the value of a quote ------------------------- *)
NoValuation ==
    [input_mint |-> SOL_MINT, quote |-> [kind |-> "none", tag |-> "missing", val |-> 0],
     cg |-> [kind |-> "none", val |-> 0], dx |-> [kind |-> "none", val |-> 0],
     done |-> FALSE, end |-> "", value_usd |-> 0]

\* lines 712-725 for one quote and one pair of answers of the price sources
EstimateValue ==
    /\ ~valuation.done
    /\ LET q == QuoteStep(valuation.input_mint, valuation.quote, valuation.cg, valuation.dx)
       IN  valuation' = [valuation EXCEPT !.done = TRUE, !.end = q.end,
                                          !.value_usd = q.value_usd]
    /\ UNCHANGED <<swapVars, pin, pout, resolver, status, snapVars, jsonl, rpc, botVars>>

InitPure ==
    /\ jsonl = NoJsonl
    /\ rpc = NoRpc
    /\ valuation = NoValuation

(* ------------------------- the bot's polling loop ---------------------- *)
\* an update with a text and a chat id, or without one of them
UpdateKinds == {"command", "other"}
UpdateIds == 1..MaxUpdates

\* (mutant) the offset is the update_id of the update
OffsetAfterSame(update_id) == update_id

\* bot.py line 343: offset = update["update_id"] + 1
OffsetAfter(update_id) == update_id + 1

\* getUpdates(offset): the update_ids the server holds from offset on, in
\* increasing order (offset 0: all of them)
Pending(ups, off) ==
    LET first == Max(off, 1)
    IN  [k \in 1..Max(0, Len(ups) - first + 1) |-> first + k - 1]

\* what poll does next when an iteration of the for loop is over
AfterUpdate(rest) == IF rest = <<>> THEN "fetch" ELSE "loop"

\* a user sends a message
UpdateArrives ==
    /\ Len(updates) < MaxUpdates
    /\ \E kind \in UpdateKinds : updates' = Append(updates, kind)
    /\ UNCHANGED <<swapVars, pin, pout, resolver, status, snapVars, pureVars,
                   offset, batch, handling, botPc, commandLog, taken, handled, dropped>>

\* bot.py lines 335-342: the getUpdates request and its answer: a timeout
\* (line 367), KeyboardInterrupt (line 369), another exception or a body that
\* is no dict (line 372), or the first n pending updates
BotGetUpdates ==
    /\ botPc = "fetch"
    /\ \E answer \in {"timeout", "interrupt", "error", "result"},
          n \in 0..MaxUpdates :
          LET pending == Pending(updates, offset)
          IN  /\ n <= Len(pending)
              /\ answer # "result" => n = 0
              /\ batch' = SubSeq(pending, 1, n)
              /\ botPc' = IF answer = "interrupt" THEN "stopped"
                          ELSE AfterUpdate(batch')
    /\ UNCHANGED <<swapVars, pin, pout, resolver, status, snapVars, pureVars,
                   offset, updates, handling, commandLog, taken, handled, dropped>>

\* bot.py lines 342-350: the next update of the batch: the offset moves past
\* it, and an update without text or chat id is skipped
BotTake ==
    /\ botPc = "loop"
    /\ LET update_id == Head(batch)
       IN  /\ offset' = OffsetAfter(update_id)
           /\ taken' = [taken EXCEPT ![update_id] = @ + 1]
           /\ batch' = Tail(batch)
           /\ IF updates[update_id] = "command"
              THEN handling' = update_id /\ botPc' = "log"
              ELSE handling' = 0 /\ botPc' = AfterUpdate(batch')
    /\ UNCHANGED <<swapVars, pin, pout, resolver, status, snapVars, pureVars,
                   updates, commandLog, handled, dropped>>

\* bot.py line 353 and lines 69-77: _log_command appends to COMMANDS_LOG; a
\* failure of the append is an exception that ends the batch (line 372)
BotLogCommand ==
    /\ botPc = "log"
    /\ \E appendOk \in BOOLEAN :
          IF appendOk
          THEN /\ commandLog' = Append(commandLog, handling)
               /\ botPc' = "handle"
               /\ UNCHANGED <<batch, handling, dropped>>
          ELSE /\ batch' = <<>>
               /\ dropped' = dropped \cup {batch[k] : k \in 1..Len(batch)}
               /\ handling' = 0
               /\ botPc' = "fetch"
               /\ UNCHANGED commandLog
    /\ UNCHANGED <<swapVars, pin, pout, resolver, status, snapVars, pureVars,
                   offset, updates, taken, handled>>

\* bot.py lines 355-372: the handler of the command runs; it returns, or it
\* raises (a timeout of a request it makes included) and the batch ends, or
\* KeyboardInterrupt ends the loop
BotHandle ==
    /\ botPc = "handle"
    /\ \E outcome \in {"ok", "raise", "timeout", "interrupt"} :
          /\ handled' = [handled EXCEPT ![handling] = Append(@, outcome)]
          /\ IF outcome = "ok"
             THEN botPc' = AfterUpdate(batch) /\ UNCHANGED <<batch, dropped>>
             ELSE /\ batch' = <<>>
                  /\ dropped' = dropped \cup {batch[k] : k \in 1..Len(batch)}
                  /\ botPc' = IF outcome = "interrupt" THEN "stopped" ELSE "fetch"
    /\ handling' = 0
    /\ UNCHANGED <<swapVars, pin, pout, resolver, status, snapVars, pureVars,
                   offset, updates, commandLog, taken>>

\* bot.py line 331: poll starts with offset 0
InitBot ==
    /\ offset = 0
    /\ updates = <<>>
    /\ batch = <<>>
    /\ handling = 0
    /\ botPc = "fetch"
    /\ commandLog = <<>>
    /\ taken = [i \in UpdateIds |-> 0]
    /\ handled = [i \in UpdateIds |-> <<>>]
    /\ dropped = {}

NextBot ==
    \/ UpdateArrives
    \/ BotGetUpdates
    \/ BotTake
    \/ BotLogCommand
    \/ BotHandle

NoInputs ==
    [sol_bal |-> None, sol_price |-> None, base_bal |-> None,
     eth_price |-> None, tokens |-> <<>>]

InitPortfolio ==
    /\ pin = NoInputs
    /\ pout = [done |-> FALSE, snapshot |-> NoSnapshot]

InitSnapshot ==
    /\ portfolioFile = AbsentFile
    /\ history = <<>>
    /\ snap = [p \in Procs |-> IdleSnap]
    /\ now = 0
    /\ reader = NotRead
    /\ persisted = {}
    /\ snapsStarted = 0
    /\ snapsDone = 0
    /\ lastSnap = 0
    /\ change = NoChange
    /\ historyView = <<>>

Init ==
    /\ InitAuth
    /\ InitSwap
    /\ gate = NoGate
    /\ InitPure
    /\ InitBot
    /\ resolver = NoResolver
    /\ status = NoStatus
    /\ InitPortfolio
    /\ InitSnapshot

Next ==
    \E p \in Procs :
        \/ SwapQuote(p)
        \/ SwapCheck(p)
        \/ SwapBuild(p)
        \/ SwapCommit(p)

Spec == Init /\ [][Next]_vars

NextGate ==
    \/ GateCall
    \/ GateTick

SpecGate == Init /\ [][NextGate]_vars

\* the snapshot as a function of what the call reads
BuildSnapshot ==
    /\ ~pout.done
    /\ pout' = [done |-> TRUE, snapshot |-> ComputeSnapshot(pin, 1)]
    /\ UNCHANGED <<swapVars, pin, pureVars, botVars, resolver, status, snapVars>>

InitInputs ==
    /\ InitAuth
    /\ InitSwap
    /\ gate = NoGate
    /\ InitPure
    /\ InitBot
    /\ resolver = NoResolver
    /\ status = NoStatus
    /\ pin \in SnapshotInputs
    /\ pout = [done |-> FALSE, snapshot |-> NoSnapshot]
    /\ InitSnapshot

SpecPortfolio == InitInputs /\ [][BuildSnapshot]_vars

NextSnapshot ==
    \/ \E p \in Procs :
          \/ SnapCompute(p)
          \/ SnapOpen(p)
          \/ SnapWrite(p)
          \/ SnapAppend(p)
    \/ GetCachedPortfolio
    \/ ClockTick

SpecSnapshot == Init /\ [][NextSnapshot]_vars

\* get_portfolio_24h_change as a function of the history file and the clock:
\* the clock reads T, two days after the time 0
ChangeNow == 2 * DAY_HOURS

\* a line of the history file with the given ts text and total, in cents
HistoryLine(ts, total) ==
    [json |-> TRUE, utf8 |-> TRUE, ts |-> ts, total_value_usd |-> total,
     sol_balance |-> None, sol_price |-> None,
     base_balance |-> None, eth_price |-> None, holdings_count |-> 0]

\* a line that is not JSON
GarbageLine == [HistoryLine(None, 0) EXCEPT !.json = FALSE]

\* a line whose bytes are not UTF-8 text
UndecodableLine == [GarbageLine EXCEPT !.utf8 = FALSE]

\* the lines of a log: two records, a line that is not JSON, a line that is
\* not text
JsonlLines ==
    {HistoryLine(Some(1), 100), HistoryLine(Some(2), 200), GarbageLine,
     UndecodableLine}

\* entries at T-48h, T-25h, T-23h and T worth 100, 110, 115 and 120 $, an
\* entry at T-24h worth nothing, one at T-24h with a negative total, one whose
\* ts is no timestamp, and a line that is not JSON
HistoryLines ==
    {HistoryLine(Some(ChangeNow - 48), 10000),
     HistoryLine(Some(ChangeNow - 25), 11000),
     HistoryLine(Some(ChangeNow - 23), 11500),
     HistoryLine(Some(ChangeNow), 12000),
     HistoryLine(Some(ChangeNow - 24), 0),
     HistoryLine(Some(ChangeNow - 24), -500),
     HistoryLine(None, 10500),
     GarbageLine}

InitChange ==
    /\ InitAuth
    /\ InitSwap
    /\ gate = NoGate
    /\ InitPure
    /\ InitBot
    /\ resolver = NoResolver
    /\ status = NoStatus
    /\ InitPortfolio
    /\ portfolioFile = AbsentFile
    /\ history \in SeqsUpTo(HistoryLines, MaxHistory)
    /\ snap = [p \in Procs |-> IdleSnap]
    /\ now = ChangeNow
    /\ reader = NotRead
    /\ persisted = {}
    /\ snapsStarted = 0
    /\ snapsDone = 0
    /\ lastSnap = 0
    /\ change = NoChange
    /\ historyView = <<>>

SpecChange == InitChange /\ [][GetPortfolio24hChange]_vars

\* the price resolver as a function of the asset and of what the primary and
\* the fallback source answer
InitPrice ==
    /\ InitAuth
    /\ InitSwap
    /\ gate = NoGate
    /\ InitPure
    /\ InitBot
    /\ resolver \in {[NoResolver EXCEPT !.asset = a, !.primary = x, !.fallback = y] :
                        a \in Assets, x \in HttpResponses, y \in HttpResponses}
    /\ status = NoStatus
    /\ InitPortfolio
    /\ InitSnapshot

SpecPrice == InitPrice /\ [][GetAssetPrice]_vars

\* the ledger file as the authority may have left it: a bucket for some of
\* the days, none for the others
Buckets == [count : 0..MaxDailyTxs, value_usd : 0..MaxDailyUsd]
LedgerFiles == UNION {[S -> Buckets] : S \in SUBSET Days}

\* the clock of a get_policy_status call, in seconds: later than a cooldown
\* after the time 0
StatusNow == MaxCooldown + 2

\* the ts of the last-action file: 0 (no file), or a time up to and after the
\* clock
LastActionTimes == 0..(StatusNow + 2)

\* get_policy_status as a function of the ledger file, the UTC date, the
\* policy's daily maximum and cooldown, the last-action file and the clock
InitStatus ==
    /\ ledger \in LedgerFiles
    /\ day \in Days
    /\ InitSwap
    /\ gate = NoGate
    /\ InitPure
    /\ InitBot
    /\ resolver = NoResolver
    /\ status \in {[NoStatus EXCEPT !.max_daily_usd = m, !.cooldown_seconds = c,
                                     !.last_ts = t, !.clock = StatusNow] :
                       m \in 0..MaxDailyUsd, c \in 0..MaxCooldown,
                       t \in LastActionTimes}
    /\ InitPortfolio
    /\ InitSnapshot

SpecStatus == InitStatus /\ [][GetPolicyStatus]_vars

\* no compute_portfolio_snapshot invocation is under way
Quiescent == \A p \in Procs : snap[p].pc \in {"idle", "done", "raised"}

\* the callers take turns: an invocation starts only when none is under way
NextSnapshotSeq ==
    \/ \E p \in Procs :
          \/ Quiescent /\ SnapCompute(p)
          \/ SnapOpen(p)
          \/ SnapWrite(p)
          \/ SnapAppend(p)
    \/ GetCachedPortfolio
    \/ ClockTick

SpecSnapshotSeq == Init /\ [][NextSnapshotSeq]_vars

\* the whole system: swaps (with their event logging), snapshots and the
\* readers of the history, in any interleaving
NextSystem ==
    \/ \E p \in Procs :
          \/ started + snapsStarted < MaxOps /\ SwapQuote(p)
          \/ SwapCheck(p)
          \/ SwapBuild(p)
          \/ SwapCommit(p)
          \/ started + snapsStarted < MaxOps /\ SnapCompute(p)
          \/ SnapOpen(p)
          \/ SnapWrite(p)
          \/ SnapAppend(p)
    \/ GetPortfolioHistory
    \/ GetPortfolio24hChange
    \/ ClockTick

SpecSystem == Init /\ [][NextSystem]_vars

\* every part but the pure functions and the bot in its initial state
InitCore ==
    InitAuth /\ InitSwap /\ gate = NoGate /\ resolver = NoResolver
        /\ status = NoStatus /\ InitPortfolio /\ InitSnapshot

\* _read_jsonl as a function of the file and the limit
InitJsonl ==
    /\ InitCore
    /\ InitBot
    /\ jsonl \in {[NoJsonl EXCEPT !.lines = q, !.limit = n] :
                     q \in SeqsUpTo(JsonlLines, MaxHistory), n \in 0..MaxLimit}
    /\ rpc = NoRpc
    /\ valuation = NoValuation

SpecJsonl == InitJsonl /\ [][ReadJsonlFile]_vars

\* the balance fetchers as functions of the wallet address and the RPC answer
InitRpc ==
    /\ InitCore
    /\ InitBot
    /\ jsonl = NoJsonl
    /\ rpc \in {[NoRpc EXCEPT !.method = m, !.address = a, !.balance = b] :
                    m \in {"getBalance", "eth_getBalance"}, a \in Addresses,
                    b \in BalanceResponses}
               \cup {[NoRpc EXCEPT !.method = "getTokenAccountsByOwner",
                                   !.address = a, !.tokens = t] :
                        a \in Addresses, t \in TokenResponses}
    /\ valuation = NoValuation

SpecRpc == InitRpc /\ [][FetchBalance]_vars

\* the value of a quote as a function of the input mint, the quote and what
\* the two price sources answer
InitValue ==
    /\ InitCore
    /\ InitBot
    /\ jsonl = NoJsonl
    /\ rpc = NoRpc
    /\ valuation \in {[NoValuation EXCEPT !.input_mint = m, !.quote = q,
                                           !.cg = x, !.dx = y] :
                          m \in Mints, q \in QuoteResponses,
                          x \in SwapHttpResponses, y \in SwapHttpResponses}

SpecValue == InitValue /\ [][EstimateValue]_vars

SpecBot == Init /\ [][NextBot]_vars

\* no jupiter_swap invocation is under way
SwapQuiescent == \A p \in Procs : inv[p].pc \in {"idle", "done", "raised"}

\* the swaps take turns: an invocation starts only when none is under way
NextSwapSeq ==
    \E p \in Procs :
        \/ SwapQuiescent /\ SwapQuote(p)
        \/ SwapCheck(p)
        \/ SwapBuild(p)
        \/ SwapCommit(p)

SpecSwapSeq == Init /\ [][NextSwapSeq]_vars

(* ------------------------------ claims -------------------------------- *)
Outcomes == {"quote_ready", "policy_denied", "tx_ready", "error"}
Returned(i) == i.pc = "done"
Denied(i) == i.result.policy.present /\ ~i.result.policy.allowed
Passed(i) == i.result.policy.present /\ i.result.policy.allowed

\* C1: every invocation that returns tx_ready was counted against the daily
\* ledger exactly once: the authority recorded exactly one commit for it.
C1_TxReadyCountedOnce ==
    \A p \in Procs :
        (Returned(inv[p]) /\ inv[p].result.status = "tx_ready")
            => inv[p].recorded = 1

C3_DryRunQuoteReady ==
    \A p \in Procs :
        (inv[p].result.dry_run /\ Passed(inv[p])) =>
            /\ Returned(inv[p])
            /\ inv[p].result.status = "quote_ready"
            /\ inv[p].result.quote.present
            /\ inv[p].result.quote.estimated_value_usd = Round2(inv[p].value_usd)
            /\ inv[p].nBuild = 0
            /\ inv[p].nCommit = 0
            /\ inv[p].recorded = 0

C3_Witness ==
    \E p \in Procs :
        /\ inv[p].result.dry_run
        /\ Passed(inv[p])
        /\ inv[p].result.status = "quote_ready"
        /\ inv[p].value_usd > 0
        /\ ledger[day] = EmptyBucket

\* C4: an invocation makes the committing call at most once, only after its
\* own non-committing check returned allowed, and for the same chain, value_usd
\* and destination as that check.
C4_CommitOnceAfterCheckSameArgs ==
    \A p \in Procs :
        /\ inv[p].nCommit <= 1
        /\ inv[p].nCommit = 1 =>
            /\ inv[p].nCheck = 1
            /\ Passed(inv[p])
            /\ ~inv[p].checkReq.commit
            /\ inv[p].commitReq.commit
            /\ inv[p].commitReq.chain = inv[p].checkReq.chain
            /\ inv[p].commitReq.value_usd = inv[p].checkReq.value_usd
            /\ inv[p].commitReq.to = inv[p].checkReq.to

C4_Witness ==
    \E p \in Procs :
        /\ inv[p].nCommit = 1
        /\ inv[p].commitReq.value_usd > 0
        /\ inv[p].recorded = 1

\* C5: check_policy is fail-closed: it returns allowed exactly when the
\* authority process ran and exited with code 0; a missing script, a process
\* that cannot be started, a timeout and a non-zero exit code all give
\* allowed = false.
C5_FailClosed ==
    gate.calls > 0 =>
        /\ gate.allowed <=> gate.answer = "exit_zero"
        /\ gate.answer \in {"missing", "spawn_error", "timeout", "exit_nonzero"}
              => (~gate.allowed /\ gate.after = gate.before)

C5_Witness ==
    /\ gate.calls > 0
    /\ gate.answer = "timeout"
    /\ gate.commit
    /\ gate.value_usd > 0
    /\ ~gate.allowed

\* C6: calls with commit = false leave the day's count and spent as they were,
\* however many are made in a row for the same action; an allowed call with
\* commit = true adds exactly 1 to the count and exactly value_usd to spent.
C6_CheckNeverMutatesCommitOnce ==
    /\ gate.run >= 1 => ledger[day] = gate.runStart
    /\ (gate.calls > 0 /\ ~gate.commit) => gate.after = gate.before
    /\ (gate.calls > 0 /\ gate.commit /\ gate.allowed) =>
          gate.after = [count |-> gate.before.count + 1,
                        value_usd |-> gate.before.value_usd + gate.value_usd]

C6_Witness ==
    /\ gate.run >= 3
    /\ gate.allowed
    /\ gate.value_usd > 0
    /\ gate.before = [count |-> 1, value_usd |-> gate.value_usd]

C8_OverspendThroughTheGap ==
    \A p \in Procs, q \in Procs :
        (/\ p # q
         /\ Returned(inv[p]) /\ inv[p].result.status = "tx_ready"
         /\ Returned(inv[q]) /\ inv[q].result.status = "tx_ready"
         /\ inv[p].value_usd + inv[q].value_usd > MaxDailyUsd)
            => /\ Passed(inv[p]) /\ Passed(inv[q])
               /\ inv[p].recorded + inv[q].recorded <= 1
               /\ ledger[day].value_usd <= MaxDailyUsd

\* the two only invocations of the day raced: both passed the check on the
\* empty ledger, the first commit was recorded, the second was refused and
\* dropped, both returned tx_ready
C8_Witness ==
    /\ started = 2
    /\ \A p \in Procs :
          /\ Returned(inv[p])
          /\ inv[p].result.status = "tx_ready"
          /\ Passed(inv[p])
    /\ inv[1].value_usd + inv[2].value_usd > MaxDailyUsd
    /\ inv[1].recorded = 1
    /\ inv[2].recorded = 0
    /\ ledger[day] = [count |-> 1, value_usd |-> inv[1].value_usd]

\* the sum of value_usd over the rows of a snapshot
RECURSIVE SumValueUsd(_)
SumValueUsd(rows) ==
    IF rows = <<>> THEN 0 ELSE Head(rows).value_usd + SumValueUsd(Tail(rows))

Both(bal, price) == bal.tag = "some" /\ price.tag = "some"

\* the (chain, asset) pairs for which a balance and a price were both resolved
ResolvedPairs ==
    (IF Both(pin.sol_bal, pin.sol_price) THEN {<<"solana", SOL_MINT>>} ELSE {})
        \cup (IF Both(pin.base_bal, pin.eth_price) THEN {<<"base", "native">>} ELSE {})
        \cup {<<"solana", pin.tokens[k].mint>> :
                k \in {j \in DOMAIN pin.tokens : pin.tokens[j].price.tag = "some"}}

\* how many of the balances read (native balances and token accounts) have
\* chain c, asset m, amount a and the resolved price x
ResolvedBalances(c, m, a, x) ==
    (IF c = "solana" /\ m = SOL_MINT /\ pin.sol_bal = Some(a) /\ pin.sol_price = Some(x)
     THEN 1 ELSE 0)
    + (IF c = "base" /\ m = "native" /\ pin.base_bal = Some(a) /\ pin.eth_price = Some(x)
       THEN 1 ELSE 0)
    + Cardinality({k \in DOMAIN pin.tokens :
            /\ c = "solana"
            /\ pin.tokens[k].mint = m
            /\ pin.tokens[k].amount = a
            /\ pin.tokens[k].price = Some(x)})

\* the rows of the snapshot with chain c, asset m, amount a and price x
Rows(c, m, a, x) ==
    {k \in DOMAIN pout.snapshot.holdings :
        LET h == pout.snapshot.holdings[k]
        IN  h.chain = c /\ h.mint = m /\ h.amount = a /\ h.price_usd = x}

ValuesAndTotal ==
    /\ \A k \in DOMAIN pout.snapshot.holdings :
          LET h == pout.snapshot.holdings[k]
          IN  h.value_usd = h.amount * h.price_usd
    /\ pout.snapshot.total_value_usd = Round2(SumValueUsd(pout.snapshot.holdings))

C10_ReaderSeesCompleteSnapshot ==
    reader.hadSnapshot =>
        /\ reader.returned.kind = "snapshot"
        /\ reader.returned.snapshot \in persisted

\* the last history entry has the ts, total and holdings count of the snapshot
\* in PORTFOLIO_FILE
LastEntryIsLatest ==
    /\ history # <<>>
    /\ portfolioFile.kind = "complete"
    /\ LET e == history[Len(history)]
           latest == portfolioFile.snapshot
       IN  /\ e.ts = Some(latest.ts)
           /\ e.total_value_usd = latest.total_value_usd
           /\ e.holdings_count = Len(latest.holdings)

\* C11 (as claimed): after any sequence of non-interleaved
\* compute_portfolio_snapshot calls the history has as many entries as calls
\* have completed, and its last entry has the ts, total_value_usd and holdings
\* count of the persisted latest snapshot.
C11_HistoryFollowsLatest ==
    (Quiescent /\ portfolioFile.kind = "complete") =>
        /\ Len(history) = snapsDone
        /\ LastEntryIsLatest

\* C11 (amended): after any sequence of non-interleaved calls the history has
\* as many entries as calls have completed, and when the call made last has
\* completed, the last entry has the ts, total_value_usd and holdings count of
\* the persisted latest snapshot.
C11_HistoryFollowsCompletedCall ==
    Quiescent =>
        /\ Len(history) = snapsDone
        /\ (lastSnap # 0 /\ snap[lastSnap].pc = "done") => LastEntryIsLatest

\* two calls have completed one after the other, the second at a later time
\* and with other holdings than the first
C11_Witness ==
    /\ Quiescent
    /\ snapsDone = 2
    /\ Len(history) = 2
    /\ history[1].ts.val < history[2].ts.val
    /\ history[1].holdings_count # history[2].holdings_count
    /\ history[2].total_value_usd > 0
    /\ LastEntryIsLatest

\* C12: the history is append-only: in every step of the system (snapshots,
\* get_portfolio_history, get_portfolio_24h_change, swaps and their event
\* logging) the history before the step is a prefix of the history after it.
C12_HistoryAppendOnly ==
    [][/\ Len(history) <= Len(history')
       /\ SubSeq(history', 1, Len(history)) = history]_vars

\* two snapshots are in the history, and both readers have read it with both
\* in it
C12_Witness ==
    /\ Len(history) = 2
    /\ history[1] # history[2]
    /\ historyView = history
    /\ change.done /\ change.matched = 1 /\ change.current = history[2].total_value_usd

\* C13: in every reachable state the history entries are in non-decreasing
\* order of timestamp in file order, also when two compute_portfolio_snapshot
\* invocations run concurrently. An invocation takes its timestamp (line 545)
\* before it appends (lines 555-563) and nothing orders the two appends, so
\* this is violated.
C13_HistoryChronological ==
    \A i \in DOMAIN history, j \in DOMAIN history :
        i < j => history[i].ts.val <= history[j].ts.val

\* the entries get_portfolio_24h_change reads
EntriesRead == ReadJsonl(history, HISTORY_WINDOW)

\* the entries whose timestamp is nearest to now - 24h
Nearest ==
    {k \in DOMAIN EntriesRead :
        \A j \in DOMAIN EntriesRead :
            DeltaToTarget(EntriesRead[k].ts, k, now)
                <= DeltaToTarget(EntriesRead[j].ts, j, now)}

\* the last of them in file order: the first when read newest-first
NewestNearest == CHOOSE k \in Nearest : \A j \in Nearest : j <= k

\* the history of the example: T-48h, T-25h, T-23h, T worth 100, 110, 115, 120
ExampleHistory ==
    <<HistoryLine(Some(ChangeNow - 48), 10000),
      HistoryLine(Some(ChangeNow - 25), 11000),
      HistoryLine(Some(ChangeNow - 23), 11500),
      HistoryLine(Some(ChangeNow), 12000)>>

\* C14: on a non-empty history get_portfolio_24h_change takes current from the
\* most recent entry and matches an entry nearest to now - 24h; of several
\* equidistant entries it matches the one met first when the history is read
\* newest-first, so on the example history it matches the T-23h entry and
\* answers value_24h_ago = 115 and change_usd = 5. The code reads the history
\* oldest-first and keeps the first of equidistant entries, so this is
\* violated.
C14_TieTakesNewest ==
    (change.done /\ EntriesRead # <<>>) =>
        /\ change.current = EntriesRead[Len(EntriesRead)].total_value_usd
        /\ change.value_24h_ago = EntriesRead[NewestNearest].total_value_usd
        /\ change.change_usd = change.current - change.value_24h_ago
        /\ history = ExampleHistory =>
              (change.value_24h_ago = 11500 /\ change.change_usd = 500)

\* C15: on a history that is empty, missing or without a line that parses,
\* get_portfolio_24h_change answers change_usd = 0, change_pct = 0,
\* value_24h_ago = 0 and current = 0; on a non-empty history change_pct is 0
\* whenever the matched entry's value is <= 0.
C15_EmptyHistoryAllZero ==
    change.done =>
        /\ EntriesRead = <<>> =>
              /\ change.change_usd = 0 /\ change.change_pct = 0
              /\ change.value_24h_ago = 0 /\ change.current = 0
        /\ (EntriesRead # <<>> /\ change.value_24h_ago <= 0) => change.change_pct = 0

\* the matched entry has a negative total, the current one a positive total,
\* and a line of the file was skipped
C15_Witness ==
    /\ change.done
    /\ Len(EntriesRead) >= 2
    /\ Len(history) > Len(EntriesRead)
    /\ change.value_24h_ago < 0
    /\ change.current > 0
    /\ change.change_usd > 0
    /\ change.change_pct = 0

\* the source's answer holds a positive price
PositivePrice(data) == data.kind = "price" /\ data.val > 0

\* C16: for an asset with a primary source (SOL, ETH) the resolver returns the
\* primary source's price whenever that price is a positive number, whatever
\* the fallback source would answer, and the fallback source is not consulted.
C16_PositivePrimaryWins ==
    (/\ resolver.done
     /\ resolver.asset \in {"SOL", "ETH"}
     /\ PositivePrice(resolver.primary)) =>
        /\ resolver.price = Some(resolver.primary.val)
        /\ resolver.consulted = <<"coingecko">>

\* the fallback source would have answered another positive price
C16_Witness ==
    /\ resolver.done
    /\ resolver.asset = "ETH"
    /\ PositivePrice(resolver.primary)
    /\ PositivePrice(resolver.fallback)
    /\ resolver.fallback.val # resolver.primary.val
    /\ resolver.price = Some(resolver.primary.val)
    /\ resolver.consulted = <<"coingecko">>

\* C17: when the primary source fails (unreachable, malformed, not a positive
\* number; a token has no primary source) the resolver returns the fallback
\* source's price if that is strictly positive and absent otherwise, so what
\* it returns is never zero and never negative. The code tests the primary
\* price for truthiness and returns the fallback price untested, so this is
\* violated.
C17_FallbackPositiveOrAbsent ==
    (resolver.done /\ resolver.price # Raise) =>
        /\ (resolver.asset = "TOKEN" \/ ~PositivePrice(resolver.primary)) =>
              resolver.price = IF PositivePrice(resolver.fallback)
                               THEN Some(resolver.fallback.val) ELSE None
        /\ resolver.price.tag = "some" => resolver.price.val > 0

\* C18: a price source never raises to its caller: whatever the sources
\* answer, the resolution ends with a number or absent. _dexscreener_price
\* calls data.get on a JSON list outside what its except clause catches, so
\* this is violated.
C18_SourcesNeverRaise ==
    resolver.done => resolver.price.tag \in {"some", "none"}

\* C19: get_policy_status takes daily_spent_usd and daily_tx_count from the
\* ledger bucket of the current UTC date alone: buckets of other days add
\* nothing, and without a bucket for the current date both are 0.
C19_StatusFromTodaysBucket ==
    status.done =>
        IF day \in DOMAIN ledger
        THEN /\ status.daily_spent_usd = ledger[day].value_usd
             /\ status.daily_tx_count = ledger[day].count
        ELSE /\ status.daily_spent_usd = 0
             /\ status.daily_tx_count = 0

\* yesterday's bucket holds spending, today has no bucket, the status shows
\* nothing spent and the whole daily maximum remaining
C19_Witness ==
    /\ status.done
    /\ day = 1
    /\ DOMAIN ledger = {0}
    /\ ledger[0].value_usd = MaxDailyUsd /\ ledger[0].count > 0
    /\ status.daily_spent_usd = 0 /\ status.daily_tx_count = 0
    /\ status.max_daily_usd = MaxDailyUsd
    /\ status.daily_remaining_usd = MaxDailyUsd

\* C20: a failure of the notification never fails the operation that
\* triggered it: whatever send_telegram comes to (not configured, HTTP error,
\* exception, outbox line not written), log_financial_event has appended its
\* event and returned, and the swap goes on as when the notification
\* succeeds: a denied swap returns policy_denied, a built swap returns
\* tx_ready once its decision-log entry is written.
C20_NotificationNeverFails ==
    \A p \in Procs :
        inv[p].notified # "none" =>
            /\ inv[p].nEvents = 1
            /\ inv[p].pc \in {"done", "raised"}
            /\ inv[p].result.status \in {"policy_denied", "tx_ready"}
            /\ inv[p].result.status = "policy_denied" => Returned(inv[p])
            /\ inv[p].result.status = "tx_ready" =>
                  (Returned(inv[p]) <=> inv[p].nDecisions = 1)

\* a swap whose notification ended in an exception returned tx_ready, with
\* its event in the log and nothing in the outbox
C20_Witness ==
    \E p \in Procs :
        /\ inv[p].notified = "exception"
        /\ Returned(inv[p])
        /\ inv[p].result.status = "tx_ready"
        /\ inv[p].nEvents = 1
        /\ events = <<"swap">>
        /\ outbox = 0

\* the last n elements of q when n > 0, q otherwise (entries[-limit:])
LastOf(q, n) ==
    IF n > 0 /\ Len(q) > n THEN SubSeq(q, Len(q) - n + 1, Len(q)) ELSE q

\* C21: _read_jsonl skips every line that fails to parse and returns all the
\* records of the other lines in file order, the last limit of them when
\* limit > 0: a corrupt line hides no other record. A line whose bytes are not
\* UTF-8 raises outside the per-line try and the read returns the empty list,
\* so this is violated.
C21_CorruptLineHidesNothing ==
    jsonl.done =>
        jsonl.entries = LastOf(SelectSeq(jsonl.lines, LAMBDA l : l.json), jsonl.limit)

\* the holdings of a response: its well-formed accounts with amount > 0
RECURSIVE FullHoldings(_)
FullHoldings(items) ==
    IF items = <<>> THEN <<>>
    ELSE LET item == Head(items)
         IN  (IF item.kind = "account" /\ item.amount > 0
              THEN <<[mint |-> item.mint, amount |-> item.amount]>>
              ELSE <<>>) \o FullHoldings(Tail(items))

\* C22: no failure escapes the balance fetcher: whatever the RPC answers,
\* get_solana_balance and get_base_balance return an amount or absent, and
\* get_solana_token_accounts raises nothing and returns either all the
\* holdings of the response with amount > 0 or the empty sequence, never a
\* holding with a non-positive amount. float() of a uiAmount text raises a
\* ValueError that is not caught, and a malformed item after the first ends
\* the loop with the accounts collected so far, so this is violated.
C22_NoFailureEscapes ==
    rpc.done =>
        /\ ~rpc.raised
        /\ rpc.amount.tag \in {"none", "some"}
        /\ rpc.accounts \in {FullHoldings(rpc.tokens.items), <<>>}
        /\ \A k \in 1..Len(rpc.accounts) : rpc.accounts[k].amount > 0

\* the invocation is over and its build step had produced a transaction
BuiltAndOver(i) ==
    i.pc \in {"done", "raised"} /\ i.nBuild = 1 /\ i.result.error = ""

AssetOf(input_mint) == IF input_mint = SOL_MINT THEN "SOL" ELSE "TOKEN"

\* the quoted input amount in whole units (0 when inAmount is missing or is
\* no number)
QuotedAmount(quote) ==
    IF quote.tag = "int" THEN quote.val \div LAMPORTS_PER_SOL ELSE 0

\* C24: the value_usd that goes to the authorization check is the quoted
\* input amount times the price that the resolver returns for the input
\* asset, and it is 0 exactly when that price cannot be resolved or the
\* amount cannot be parsed; the swap then goes on to the check with value 0.
\* The code prices SOL only: for every other input mint value_usd is 0 though
\* the resolver has a price for it, so this is violated.
C24_ValueIsResolvedPriceTimesAmount ==
    (valuation.done /\ valuation.quote.kind # "none") =>
        LET price == ResolvePrice(AssetOf(valuation.input_mint),
                                  valuation.cg, valuation.dx)
        IN  /\ valuation.end = "value"
            /\ valuation.value_usd =
                  IF price.tag = "some"
                  THEN QuotedAmount(valuation.quote) * price.val
                  ELSE 0

\* how many lines of the kind x a log holds
Count(log, x) == Cardinality({k \in 1..Len(log) : log[k] = x})

\* C25: the logs mirror the outcomes one to one: an invocation appends
\* exactly one swap_denied event if and only if it returns policy_denied, it
\* appends exactly one swap event and exactly one swap_executed decision if
\* and only if it returns tx_ready, and an invocation that returns
\* quote_ready or error appends nothing to either log. (An invocation whose
\* swap event is appended and whose decision append fails returns nothing.)
C25_LogsMirrorOutcomes ==
    \A p \in Procs :
        LET i == inv[p]
            returns(st) == Returned(i) /\ i.result.status = st
        IN  i.pc \in {"done", "raised"} =>
              /\ Count(i.logged, "swap_denied") <= 1
              /\ Count(i.logged, "swap") <= 1
              /\ Count(i.logged, "swap_denied") = 1 <=> returns("policy_denied")
              /\ (Count(i.logged, "swap") = 1 /\ i.decided = <<"swap_executed">>)
                    <=> returns("tx_ready")
              /\ (returns("quote_ready") \/ returns("error"))
                    => (i.logged = <<>> /\ i.decided = <<>>)
              /\ Len(i.logged) + Len(i.decided) <= 2

\* one invocation has returned policy_denied and left its swap_denied event,
\* another has returned tx_ready and left its swap event and its decision
C25_Witness ==
    \E p, q \in Procs :
        /\ Returned(inv[p]) /\ inv[p].result.status = "policy_denied"
        /\ inv[p].logged = <<"swap_denied">> /\ inv[p].decided = <<>>
        /\ Returned(inv[q]) /\ inv[q].result.status = "tx_ready"
        /\ inv[q].logged = <<"swap">> /\ inv[q].decided = <<"swap_executed">>
        /\ events \in {<<"swap_denied", "swap">>, <<"swap", "swap_denied">>}
        /\ decisions = <<"swap_executed">>

DailyRemaining == Max(0, status.max_daily_usd - status.daily_spent_usd)
CooldownLeft ==
    Max(0, status.cooldown_seconds - (status.clock - status.last_ts))

\* C27 as stated: get_policy_status returns daily_remaining_usd =
\* max(0, max_daily_usd - daily_spent_usd) and cooldown_remaining =
\* max(0, cooldown_seconds - (now - last_action_ts)), so that always
\* 0 <= daily_remaining_usd <= max_daily_usd and
\* 0 <= cooldown_remaining <= cooldown_seconds, also when no action was ever
\* committed and when the last-action timestamp is in the future.
C27_RemainingsWithinBounds ==
    status.done =>
        /\ status.daily_remaining_usd = DailyRemaining
        /\ status.cooldown_remaining = CooldownLeft
        /\ 0 <= status.daily_remaining_usd
        /\ status.daily_remaining_usd <= status.max_daily_usd
        /\ 0 <= status.cooldown_remaining
        /\ status.cooldown_remaining <= status.cooldown_seconds

\* C27 (amended): daily_remaining_usd = max(0, max_daily_usd -
\* daily_spent_usd); cooldown_remaining = max(0, cooldown_seconds - (now -
\* last_action_ts)) when the policy has a cooldown, and 0 when it has none;
\* 0 <= daily_remaining_usd <= max_daily_usd and cooldown_remaining >= 0
\* always; cooldown_remaining <= cooldown_seconds when no action was ever
\* committed or the last-action timestamp is not after the clock, and with a
\* cooldown and a last-action timestamp in the future it is
\* cooldown_seconds + (last_action_ts - now), more than cooldown_seconds.
C27_RemainingsFollowFormulas ==
    status.done =>
        /\ status.daily_remaining_usd = DailyRemaining
        /\ status.cooldown_remaining =
              IF status.cooldown_seconds > 0 THEN CooldownLeft ELSE 0
        /\ 0 <= status.daily_remaining_usd
        /\ status.daily_remaining_usd <= status.max_daily_usd
        /\ 0 <= status.cooldown_remaining
        /\ status.last_ts <= status.clock =>
              status.cooldown_remaining <= status.cooldown_seconds
        /\ (status.last_ts > status.clock /\ status.cooldown_seconds > 0) =>
              /\ status.cooldown_remaining =
                    status.cooldown_seconds + (status.last_ts - status.clock)
              /\ status.cooldown_remaining > status.cooldown_seconds

\* the last action is stamped one second after the clock and the status shows
\* a cooldown that remains for longer than the policy's cooldown
C27_Witness ==
    /\ status.done
    /\ status.cooldown_seconds = MaxCooldown
    /\ status.last_ts = status.clock + 1
    /\ status.cooldown_remaining = MaxCooldown + 1
    /\ status.daily_spent_usd > 0
    /\ status.daily_remaining_usd = status.max_daily_usd - status.daily_spent_usd

\* the invocation is over and the authority recorded its committing call
CommitRecorded(i) ==
    i.pc \in {"done", "raised"} /\ i.nCommit = 1 /\ i.recorded = 1

\* C28 as stated: a commit that the authority recorded is never orphaned:
\* the invocation returns tx_ready and its swap event is in the event log,
\* also when an append to the event log or the decision log fails after the
\* commit.
C28_CommitNeverOrphaned ==
    \A p \in Procs :
        CommitRecorded(inv[p]) =>
            /\ Returned(inv[p])
            /\ inv[p].result.status = "tx_ready"
            /\ inv[p].logged = <<"swap">>

\* C28 (amended): an invocation whose commit was recorded has the result
\* tx_ready with the transaction; it returns it, with its swap event and its
\* decision written, exactly when both appends succeed. When the append to
\* the event log fails it ends with that exception and leaves no swap event,
\* when the append to the decision log fails it ends with that exception
\* after its swap event was written; the commit stays in the ledger.
C28_CommitOrphanedOnlyByAppendFailure ==
    \A p \in Procs :
        CommitRecorded(inv[p]) =>
            /\ inv[p].result.status = "tx_ready"
            /\ inv[p].result.swap_transaction_b64 = "tx"
            /\ ledger[day].count >= 1
            /\ Returned(inv[p]) <=>
                  (inv[p].logged = <<"swap">> /\ inv[p].decided = <<"swap_executed">>)
            /\ ~Returned(inv[p]) =>
                  /\ inv[p].logged \in {<<>>, <<"swap">>}
                  /\ inv[p].decided = <<>>

\* the authority has recorded the commit of an invocation that ended on the
\* failed append of its swap event: the ledger counts a swap that no log shows
C28_Witness ==
    \E p \in Procs :
        /\ CommitRecorded(inv[p])
        /\ inv[p].pc = "raised"
        /\ inv[p].logged = <<>>
        /\ events = <<>>
        /\ ledger[day].count = 1
        /\ inv[p].value_usd > 0 /\ ledger[day].value_usd = inv[p].value_usd

\* C29: when the swap invocations take turns and the authority enforces the
\* daily maxima, the value_usd of the swaps that returned tx_ready within one
\* UTC day sum to no more than max_daily_usd and their number is no more than
\* max_daily_txs, whatever the authority answers to the committing calls. A
\* commit that the authority refuses or that fails is not recorded and the
\* invocation returns tx_ready all the same, so the next check passes against
\* a ledger that lacks it and this is violated.
C29_SequentialSwapsWithinDailyMaxima ==
    /\ ready.value_usd <= MaxDailyUsd
    /\ ready.txs <= MaxDailyTxs

\* the updates whose iteration of the for loop has begun
Seen == {i \in UpdateIds : taken[i] > 0}
LastSeen == CHOOSE i \in Seen : \A j \in Seen : j <= i

\* the state part of C30
PollInvariant ==
    /\ offset = IF Seen = {} THEN 0 ELSE LastSeen + 1
    /\ \A i \in UpdateIds :
          /\ taken[i] <= 1
          /\ Len(handled[i]) <= 1
          /\ i <= Len(updates) => (taken[i] = 1 <=> i < offset)
          /\ i > Len(updates) => taken[i] = 0
          /\ handled[i] # <<>> =>
                (updates[i] = "command" /\ Count(commandLog, i) = 1)
          /\ Count(commandLog, i) <= 1
          /\ i \in dropped => (taken[i] = 1 \/ i >= offset)
    /\ botPc = "handle" => Count(commandLog, handling) = 1
    /\ \A k \in 1..Len(batch) : taken[batch[k]] = 0 /\ batch[k] >= offset

\* C30: in poll the getUpdates offset never decreases and is always the last
\* seen update_id + 1 (0 before the first update), so that every update is
\* iterated and dispatched to a handler at most once, also when a handler
\* raises in the middle of a batch: the later updates of that batch are still
\* at or after the offset, so they are fetched again and none is lost; and
\* every update with a text and a chat id is in the command log before its
\* handler runs.
C30_OffsetMovesPastEachUpdateOnce ==
    [](PollInvariant) /\ [][offset' >= offset]_vars

\* the handler of an update raised, which dropped a later update of the
\* batch, and that update has been fetched again and handled
C30_Witness ==
    \E i, j \in UpdateIds :
        /\ i < j
        /\ handled[i] = <<"raise">>
        /\ j \in dropped
        /\ handled[j] = <<"ok">>
        /\ commandLog = <<i, j>>

====
